---- MODULE Spec2Model ----
(***************************************************************************)
(* Model of the Binance diff-depth order-book session of                   *)
(* src/services/marketService.ts (subscribeToBinanceStream) and of the     *)
(* aggregation it feeds (aggregateOrders, emitUpdate).                     *)
(*                                                                         *)
(* JavaScript runs every handler to completion, so each handler            *)
(* (ws.onopen, ws.onmessage, the continuation of fetchSnapshot after its   *)
(* awaits, the requestAnimationFrame callback, the teardown closure) is    *)
(* one atomic action.  Prices and quantities are integers; a mid price,    *)
(* which may be a half, is kept doubled (midPrice2 = 2 * midPrice), and so *)
(* are the bucket prices derived from it.  The timestamp of a view is not  *)
(* modelled.                                                               *)
(***************************************************************************)
EXTENDS Integers, Sequences, FiniteSets, TLC

\* ------------------------------------------------------------------ bounds

\* Number of stream messages the server sends in one session.
MaxEvents == 2
\* Longest change list of an event in the processEvent harness.
MaxChanges == 2

\* --------------------------------------------------------------- constants

AGGREGATION_BUCKET_SIZE == 2
MAX_HISTORY == 100
VISUAL_BUCKETS == 60

\* ------------------------------------------------------------ conversions

\* parseFloat on the decimal strings the exchange sends.  Distinct strings
\* may denote the same number ("99" and "99.00", "0" and "0.00").
ParseFloat(s) ==
    CASE s = "0"      -> 0
      [] s = "0.00"   -> 0
      [] s = "1"      -> 1
      [] s = "2"      -> 2
      [] s = "3"      -> 3
      [] s = "97"     -> 97
      [] s = "99"     -> 99
      [] s = "99.00"  -> 99
      [] s = "101"    -> 101
      [] s = "103"    -> 103

\* ------------------------------------------------------- Map<number,number>

EmptyMap == [k \in {} |-> 0]

\* Map.prototype.set
MapSet(m, k, v) == [x \in (DOMAIN m) \cup {k} |-> IF x = k THEN v ELSE m[x]]

\* Map.prototype.delete
MapDelete(m, k) == [x \in (DOMAIN m) \ {k} |-> m[x]]

\* ------------------------------------------------------------ processEvent

\* Fault variant of ApplyChange: the quantity is added to the level's.
ApplyChangeAdding(m, c) ==
    LET price == ParseFloat(c[1])
        qty   == ParseFloat(c[2])
    IN  IF qty = 0 THEN MapDelete(m, price)
        ELSE MapSet(m, price, IF price \in DOMAIN m THEN m[price] + qty ELSE qty)

\* Fault variant of ApplyChange: a zero quantity is stored, not removed.
ApplyChangeKeepingZero(m, c) ==
    MapSet(m, ParseFloat(c[1]), ParseFloat(c[2]))

\* One [pStr, qStr] pair of e.b / e.a.
ApplyChange(m, c) ==
    LET price == ParseFloat(c[1])
        qty   == ParseFloat(c[2])
    IN  IF qty = 0 THEN MapDelete(m, price) ELSE MapSet(m, price, qty)

\* The for-of loop over one side's change list, in list order.
RECURSIVE ApplyChanges(_, _)
ApplyChanges(m, changes) ==
    IF changes = << >> THEN m
    ELSE ApplyChanges(ApplyChange(m, Head(changes)), Tail(changes))

\* The forEach over one side of the REST snapshot: every pair is set.
RECURSIVE LoadLevels(_, _)
LoadLevels(m, items) ==
    IF items = << >> THEN m
    ELSE LoadLevels(MapSet(m, ParseFloat(Head(items)[1]), ParseFloat(Head(items)[2])),
                    Tail(items))

\* ---------------------------------------------------------- aggregateOrders

Abs(x) == IF x < 0 THEN -x ELSE x

\* Math.floor(Math.abs(price - midPrice) / AGGREGATION_BUCKET_SIZE), with the
\* mid price doubled.
BucketIndex(price, midPrice2) ==
    Abs(2 * price - midPrice2) \div (2 * AGGREGATION_BUCKET_SIZE)

\* Fault variant of Distribute: `=` for `+=`.
RECURSIVE DistributeOverwriting(_, _, _, _)
DistributeOverwriting(bucketVolumes, rawOrders, keys, midPrice2) ==
    IF keys = {} THEN bucketVolumes
    ELSE LET price == CHOOSE x \in keys : TRUE
             index == Abs(2 * price - midPrice2) \div (2 * AGGREGATION_BUCKET_SIZE)
             next  == IF index >= 0 /\ index < VISUAL_BUCKETS
                      THEN [bucketVolumes EXCEPT ![index] = rawOrders[price]]
                      ELSE bucketVolumes
         IN  DistributeOverwriting(next, rawOrders, keys \ {price}, midPrice2)

\* Step 2, the loop over rawOrders: bucketVolumes[index] += qty when the index
\* is in range.  keys are the entries still to visit.
RECURSIVE Distribute(_, _, _, _)
Distribute(bucketVolumes, rawOrders, keys, midPrice2) ==
    IF keys = {} THEN bucketVolumes
    ELSE LET price == CHOOSE x \in keys : TRUE
             index == BucketIndex(price, midPrice2)
             next  == IF index >= 0 /\ index < VISUAL_BUCKETS
                      THEN [bucketVolumes EXCEPT ![index] = @ + rawOrders[price]]
                      ELSE bucketVolumes
         IN  Distribute(next, rawOrders, keys \ {price}, midPrice2)

\* Fault variant of BuildCumulative: the bid prices move up from the mid.
RECURSIVE BuildCumulativeAscending(_, _, _, _, _, _)
BuildCumulativeAscending(bucketVolumes, isBid, midPrice2, i, cumulativeTotal, result) ==
    IF i >= VISUAL_BUCKETS THEN result
    ELSE LET qty   == bucketVolumes[i]
             total == cumulativeTotal + qty
         IN  BuildCumulativeAscending(bucketVolumes, isBid, midPrice2, i + 1, total,
                 Append(result, [price2 |-> midPrice2 + i * 2 * AGGREGATION_BUCKET_SIZE,
                                 quantity |-> qty, total |-> total]))

\* Fault variant of BuildCumulative: `total: qty`, nothing accumulated.
RECURSIVE BuildCumulativePerBucket(_, _, _, _, _, _)
BuildCumulativePerBucket(bucketVolumes, isBid, midPrice2, i, cumulativeTotal, result) ==
    IF i >= VISUAL_BUCKETS THEN result
    ELSE LET qty == bucketVolumes[i]
             bucketPrice2 ==
                 IF isBid THEN midPrice2 - i * 2 * AGGREGATION_BUCKET_SIZE
                          ELSE midPrice2 + i * 2 * AGGREGATION_BUCKET_SIZE
         IN  BuildCumulativePerBucket(bucketVolumes, isBid, midPrice2, i + 1, qty,
                 Append(result, [price2 |-> bucketPrice2, quantity |-> qty,
                                 total |-> qty]))

\* Step 3, the loop over i: one entry pushed per bucket.  price2 is the
\* doubled bucket price.
RECURSIVE BuildCumulative(_, _, _, _, _, _)
BuildCumulative(bucketVolumes, isBid, midPrice2, i, cumulativeTotal, result) ==
    IF i >= VISUAL_BUCKETS THEN result
    ELSE LET qty   == bucketVolumes[i]
             total == cumulativeTotal + qty
             bucketPrice2 ==
                 IF isBid THEN midPrice2 - i * 2 * AGGREGATION_BUCKET_SIZE
                          ELSE midPrice2 + i * 2 * AGGREGATION_BUCKET_SIZE
         IN  BuildCumulative(bucketVolumes, isBid, midPrice2, i + 1, total,
                 Append(result, [price2 |-> bucketPrice2, quantity |-> qty,
                                 total |-> total]))

\* Entry i + 1 of the result is the code's result[i].
AggregateOrders(rawOrders, isBid, midPrice2) ==
    LET zero    == [i \in 0..(VISUAL_BUCKETS - 1) |-> 0]
        volumes == Distribute(zero, rawOrders, DOMAIN rawOrders, midPrice2)
    IN  BuildCumulative(volumes, isBid, midPrice2, 0, 0, << >>)

\* e.b then e.a applied to the two maps (`if (e.b)` / `if (e.a)`: an absent
\* list and an empty one both change nothing).
ProcessEvent(store, e) ==
    [bids |-> ApplyChanges(store.bids, e.b),
     asks |-> ApplyChanges(store.asks, e.a)]

\* validEvents.forEach(processEvent)
RECURSIVE ProcessEvents(_, _)
ProcessEvents(store, events) ==
    IF events = << >> THEN store
    ELSE ProcessEvents(ProcessEvent(store, Head(events)), Tail(events))

\* Fault variant of ValidEvents: `>=` for `>`.
ValidEventsFromId(buffer, id) == SelectSeq(buffer, LAMBDA e : e.u >= id)

\* Fault variant of ValidEvents: the filter reads U, the first id.
ValidEventsByFirstId(buffer, id) == SelectSeq(buffer, LAMBDA e : e.U > id)

\* eventBuffer.filter(e => e.u > lastUpdateId)
ValidEvents(buffer, id) == SelectSeq(buffer, LAMBDA e : e.u > id)

\* --------------------------------------------------------------- emitUpdate

Max(S) == CHOOSE x \in S : \A y \in S : y <= x
Min(S) == CHOOSE x \in S : \A y \in S : x <= y

\* Fault variant of BestBid: `<` for `>`, the lowest bid.
BestBidLowest(m) == IF \E k \in DOMAIN m : k > 0 THEN Min(DOMAIN m) ELSE 0

\* let bestBid = 0; for (k of bidMap.keys()) if (k > bestBid) bestBid = k
BestBid(m) == IF \E k \in DOMAIN m : k > 0 THEN Max(DOMAIN m) ELSE 0

\* bestAsk stays Infinity exactly when the ask map has no key.
BestAskIsInfinity(m) == DOMAIN m = {}
BestAsk(m) == Min(DOMAIN m)

\* Fault variant of EmitWithheld: `&&` for `||` in both tests.
EmitWithheldBothEmpty(bids, asks) ==
    \/ (DOMAIN bids = {} /\ DOMAIN asks = {})
    \/ (BestBid(bids) = 0 /\ BestAskIsInfinity(asks))

\* The two early returns of emitUpdate.
EmitWithheld(bids, asks) ==
    \/ (DOMAIN bids = {} \/ DOMAIN asks = {})
    \/ (BestBid(bids) = 0 \/ BestAskIsInfinity(asks))

\* The OrderBookSnapshot handed to onUpdate (timestamp left out).
BuildSnapshot(bids, asks) ==
    LET midPrice2 == BestBid(bids) + BestAsk(asks)
    IN  [midPrice2 |-> midPrice2,
         bids      |-> AggregateOrders(bids, TRUE, midPrice2),
         asks      |-> AggregateOrders(asks, FALSE, midPrice2)]

\* ------------------------------------------------------------------ inputs

\* Update ids of the stream and of the REST snapshot.
UpdateIds == 1..3
BaselineIds == 1..2

\* Change lists of a stream event: at most one change, setting or removing
\* the level next to the mid price.
BidChangeLists == { << >>, << <<"99", "1">> >>, << <<"99", "0.00">> >> }
AskChangeLists == { << >>, << <<"101", "1">> >>, << <<"101", "0.00">> >> }

\* An event of the live stream carries one change, on one side.
StreamBodies ==
    { x \in [b : BidChangeLists, a : AskChangeLists] : (x.b = << >>) # (x.a = << >>) }

\* The n-th message of the stream: a depthUpdate, or a message of another
\* type.  n is the message's position in the stream; the code never reads it.
DepthUpdates(n) ==
    { [e |-> "depthUpdate", n |-> n, U |-> U, u |-> u, b |-> x.b, a |-> x.a] :
        U \in UpdateIds, u \in UpdateIds, x \in StreamBodies }

StreamMessages(n) ==
    { m \in DepthUpdates(n) : m.U <= m.u }
    \cup { [e |-> "other", n |-> n, U |-> 0, u |-> 0, b |-> << >>, a |-> << >>] }

\* Responses of GET /api/v3/depth.
BaselineBidLists ==
    { << >>, << <<"99", "1">> >>, << <<"99", "0.00">> >>,
      << <<"99", "1">>, <<"97", "2">> >> }
BaselineAskLists ==
    { << >>, << <<"101", "1">> >>, << <<"101", "0.00">> >>,
      << <<"101", "1">>, <<"103", "2">> >> }
Baselines ==
    [lastUpdateId : BaselineIds, bids : BaselineBidLists, asks : BaselineAskLists]

\* `data.lastUpdateId` of a body without that field: JavaScript's undefined,
\* here an id that no snapshot and no event carries.
Undefined == 0 - 1

\* Bodies of the snapshot request that cannot be used: the exchange's error
\* object {code, msg} (no lastUpdateId, no bids), and a depth object whose
\* asks are missing.  `missing` names the first field that is not a list.
UnusableBaselines ==
    { [lastUpdateId |-> Undefined, bids |-> << >>, missing |-> "bids"] }
      \cup { [lastUpdateId |-> i, bids |-> b, missing |-> "asks"] :
                i \in BaselineIds, b \in BaselineBidLists }

\* ------------------------------------------------------------------- state

VARIABLES
    wsState,      \* ws.readyState
    fetchState,   \* fetchSnapshot: "idle", "pending", "done", "failed"
    bidMap,       \* price -> quantity
    askMap,
    eventBuffer,  \* events received before the snapshot
    hasSnapshot,
    lastUpdateId,
    processing,   \* the throttle's flag
    rafQueue,     \* animation-frame callbacks requested and not yet run
    emittedFrom,  \* the maps the last call of onUpdate was built from
    emitCount,    \* history: calls of onUpdate
    lastRaf,      \* history: outcome of the last animation-frame callback
    received,     \* history: ids of the messages handed to ws.onmessage
    applied,      \* history: stream positions of the events processEvent ran on
    probe         \* processEvent harness: the event and the maps around it

vars == << wsState, fetchState, bidMap, askMap, eventBuffer, hasSnapshot,
           lastUpdateId, processing, rafQueue, emittedFrom, emitCount, lastRaf,
           received, applied, probe >>

NoEmission == [bids |-> EmptyMap, asks |-> EmptyMap]

Init ==
    /\ wsState = "CONNECTING"
    /\ fetchState = "idle"
    /\ bidMap = EmptyMap
    /\ askMap = EmptyMap
    /\ eventBuffer = << >>
    /\ hasSnapshot = FALSE
    /\ lastUpdateId = 0
    /\ processing = FALSE
    /\ rafQueue = 0
    /\ emittedFrom = NoEmission
    /\ emitCount = 0
    /\ lastRaf = "none"
    /\ received = << >>
    /\ applied = << >>
    /\ probe = [phase |-> "off"]

\* ----------------------------------------------------------------- actions

\* ws.onopen: the socket opened; fetchSnapshot() starts and suspends at its
\* first await.
OnOpen ==
    /\ wsState = "CONNECTING"
    /\ wsState' = "OPEN"
    /\ fetchState' = "pending"
    /\ UNCHANGED << bidMap, askMap, eventBuffer, hasSnapshot, lastUpdateId,
                    processing, rafQueue, emittedFrom, emitCount, lastRaf,
                    received, applied, probe >>

\* The positions (n) of a sequence of events.
Positions(events) == [i \in 1..Len(events) |-> events[i].n]

\* fetchSnapshot after `await res.json()`: lines 147-164 run without
\* suspending.
FetchSnapshotDone(data) ==
    /\ fetchState = "pending"
    /\ LET validEvents == ValidEvents(eventBuffer, data.lastUpdateId)
           loaded == [bids |-> LoadLevels(bidMap, data.bids),
                      asks |-> LoadLevels(askMap, data.asks)]
           store  == ProcessEvents(loaded, validEvents)
       IN  /\ lastUpdateId' = data.lastUpdateId
           /\ bidMap' = store.bids
           /\ askMap' = store.asks
           /\ applied' = applied \o Positions(validEvents)
    /\ hasSnapshot' = TRUE
    /\ eventBuffer' = << >>
    /\ fetchState' = "done"
    /\ UNCHANGED << wsState, processing, rafQueue, emittedFrom, emitCount,
                    lastRaf, received, probe >>

\* fetch() rejects or res.json() throws: the catch block only logs.
FetchSnapshotFailed ==
    /\ fetchState = "pending"
    /\ fetchState' = "failed"
    /\ UNCHANGED << wsState, bidMap, askMap, eventBuffer, hasSnapshot,
                    lastUpdateId, processing, rafQueue, emittedFrom, emitCount,
                    lastRaf, received, applied, probe >>

\* The request answers with a body that is not a depth snapshot: line 147
\* assigns lastUpdateId, `data.bids.forEach` or `data.asks.forEach` throws a
\* TypeError on the missing field, and the catch block logs it.
FetchSnapshotUnusable(data) ==
    /\ fetchState = "pending"
    /\ fetchState' = "failed"
    /\ lastUpdateId' = data.lastUpdateId
    /\ bidMap' = IF data.missing = "bids" THEN bidMap
                 ELSE LoadLevels(bidMap, data.bids)
    /\ UNCHANGED << wsState, askMap, eventBuffer, hasSnapshot, processing,
                    rafQueue, emittedFrom, emitCount, lastRaf, received,
                    applied, probe >>

\* Fault variant of BufferEvent: the event is also applied to the maps.
BufferEventAndApply(data) ==
    /\ eventBuffer' = Append(eventBuffer, data)
    /\ bidMap' = ApplyChanges(bidMap, data.b)
    /\ askMap' = ApplyChanges(askMap, data.a)
    /\ UNCHANGED << lastUpdateId, processing, rafQueue, applied >>

\* Fault variant of BufferEvent: the throttle runs for buffered events too.
BufferEventScheduling(data) ==
    /\ eventBuffer' = Append(eventBuffer, data)
    /\ IF ~processing
       THEN processing' = TRUE /\ rafQueue' = rafQueue + 1
       ELSE UNCHANGED << processing, rafQueue >>
    /\ UNCHANGED << bidMap, askMap, lastUpdateId, applied >>

\* `if (!hasSnapshot) eventBuffer.push(data)`
BufferEvent(data) ==
    /\ eventBuffer' = Append(eventBuffer, data)
    /\ UNCHANGED << bidMap, askMap, lastUpdateId, processing, rafQueue, applied >>

\* Fault variant of ApplyLiveEvent: a frame is requested for every event.
ApplyLiveEventAlwaysScheduling(data) ==
    /\ LET store == ProcessEvent([bids |-> bidMap, asks |-> askMap], data)
       IN  bidMap' = store.bids /\ askMap' = store.asks
    /\ applied' = Append(applied, data.n)
    /\ processing' = TRUE /\ rafQueue' = rafQueue + 1
    /\ UNCHANGED << eventBuffer, lastUpdateId >>

\* `else { processEvent(data); if (!processing) { ... } }`
ApplyLiveEvent(data) ==
    /\ LET store == ProcessEvent([bids |-> bidMap, asks |-> askMap], data)
       IN  bidMap' = store.bids /\ askMap' = store.asks
    /\ applied' = Append(applied, data.n)
    /\ IF ~processing
       THEN processing' = TRUE /\ rafQueue' = rafQueue + 1
       ELSE UNCHANGED << processing, rafQueue >>
    /\ UNCHANGED << eventBuffer, lastUpdateId >>

\* ws.onmessage for a message that parses.  The browser delivers messages
\* only while the socket is OPEN.
OnMessage(data) ==
    /\ wsState = "OPEN"
    /\ Len(received) < MaxEvents
    /\ received' = Append(received, [e |-> data.e, U |-> data.U, u |-> data.u,
                                     buffered |-> ~hasSnapshot])
    /\ IF data.e = "depthUpdate"
       THEN IF ~hasSnapshot THEN BufferEvent(data) ELSE ApplyLiveEvent(data)
       ELSE UNCHANGED << bidMap, askMap, eventBuffer, lastUpdateId, processing,
                         rafQueue, applied >>
    /\ UNCHANGED << wsState, fetchState, hasSnapshot, emittedFrom, emitCount,
                    lastRaf, probe >>

\* The snapshot the consumer received last (App.tsx keeps it in
\* latestDataRef): emitUpdate builds it, in the same callback, from the maps
\* as they are then.  Meaningful once emitCount > 0.
LatestData == BuildSnapshot(emittedFrom.bids, emittedFrom.asks)

\* The requestAnimationFrame callback: emitUpdate(); processing = false.
\* Fault variant of AnimationFrame: emitUpdate refills one snapshot object
\* and hands it out again, so the snapshots the App holds change with it.
AnimationFrameReusingObject ==
    /\ rafQueue > 0
    /\ rafQueue' = rafQueue - 1
    /\ IF EmitWithheld(bidMap, askMap)
       THEN /\ lastRaf' = "withheld"
            /\ UNCHANGED << emittedFrom, emitCount, probe >>
       ELSE /\ lastRaf' = "emitted"
            /\ emittedFrom' = [bids |-> bidMap, asks |-> askMap]
            /\ emitCount' = emitCount + 1
            /\ probe' = [probe EXCEPT !.history =
                             [k \in DOMAIN @ |-> [timestamp |-> emitCount + 1,
                                                  from |-> emittedFrom']]]
    /\ processing' = FALSE
    /\ UNCHANGED << wsState, fetchState, bidMap, askMap, eventBuffer,
                    hasSnapshot, lastUpdateId, received, applied >>

AnimationFrame ==
    /\ rafQueue > 0
    /\ rafQueue' = rafQueue - 1
    /\ IF EmitWithheld(bidMap, askMap)
       THEN /\ lastRaf' = "withheld"
            /\ UNCHANGED << emittedFrom, emitCount >>
       ELSE /\ lastRaf' = "emitted"
            /\ emittedFrom' = [bids |-> bidMap, asks |-> askMap]
            /\ emitCount' = emitCount + 1
    /\ processing' = FALSE
    /\ UNCHANGED << wsState, fetchState, bidMap, askMap, eventBuffer,
                    hasSnapshot, lastUpdateId, received, applied, probe >>

\* Fault variant of TeardownResult: a socket that is not open is forced shut.
TeardownResultForcing(readyState) ==
    IF readyState = "OPEN" THEN "CLOSING" ELSE "CLOSED"

\* ws.readyState after `if (ws.readyState === WebSocket.OPEN) ws.close()`.
TeardownResult(readyState) ==
    IF readyState = "OPEN" THEN "CLOSING" ELSE readyState

\* The returned teardown: it touches the socket and nothing else.
CloseIfOpen ==
    /\ wsState' = TeardownResult(wsState)
    /\ UNCHANGED << fetchState, bidMap, askMap, eventBuffer, hasSnapshot,
                    lastUpdateId, processing, rafQueue, emittedFrom, emitCount,
                    lastRaf, received, applied >>

Teardown == CloseIfOpen /\ UNCHANGED probe

\* The connection ends: the handshake of close() completes, the server or
\* the network drops the socket, or the connection attempt fails.
SocketClosed ==
    /\ wsState \in {"CONNECTING", "OPEN", "CLOSING"}
    /\ wsState' = "CLOSED"
    /\ UNCHANGED << fetchState, bidMap, askMap, eventBuffer, hasSnapshot,
                    lastUpdateId, processing, rafQueue, emittedFrom, emitCount,
                    lastRaf, received, applied, probe >>

Next ==
    \/ OnOpen
    \/ \E data \in Baselines : FetchSnapshotDone(data)
    \/ FetchSnapshotFailed
    \/ \E data \in UnusableBaselines : FetchSnapshotUnusable(data)
    \/ \E data \in StreamMessages(Len(received) + 1) : OnMessage(data)
    \/ AnimationFrame
    \/ Teardown
    \/ SocketClosed

Spec == Init /\ [][Next]_vars

\* ------------------------------------------------- the processEvent harness

\* A synchronized session with an arbitrary book, to which one event is
\* applied by the live path of ws.onmessage, and then applied once more.

SeqsUpTo(S, n) == UNION { [1..k -> S] : k \in 0..n }

MapsOver(prices, quantities) == UNION { [P -> quantities] : P \in SUBSET prices }

ProbeBidLevels == {"97", "99", "99.00"} \X {"0.00", "1", "2"}
ProbeAskLevels == {"101", "103"} \X {"0", "3"}

ProbeEvents ==
    { [e |-> "depthUpdate", n |-> 1, U |-> 2, u |-> 2, b |-> b, a |-> a] :
        b \in SeqsUpTo(ProbeBidLevels, MaxChanges), a \in SeqsUpTo(ProbeAskLevels, 1) }

InitApply ==
    /\ wsState = "OPEN"
    /\ fetchState = "done"
    /\ bidMap \in MapsOver({97, 99}, {1, 2})
    /\ askMap \in MapsOver({101, 103}, {1})
    /\ eventBuffer = << >>
    /\ hasSnapshot = TRUE
    /\ lastUpdateId = 1
    /\ processing = FALSE
    /\ rafQueue = 0
    /\ emittedFrom = NoEmission
    /\ emitCount = 0
    /\ lastRaf = "none"
    /\ received = << >>
    /\ applied = << >>
    /\ probe = [phase |-> "idle"]

ProbeProcess(data) ==
    /\ probe.phase = "idle"
    /\ ApplyLiveEvent(data)
    /\ probe' = [phase |-> "once", e |-> data, bids0 |-> bidMap, asks0 |-> askMap,
                 bids1 |-> bidMap', asks1 |-> askMap']
    /\ UNCHANGED << wsState, fetchState, hasSnapshot, emittedFrom, emitCount,
                    lastRaf, received >>

ProbeRepeat ==
    /\ probe.phase = "once"
    /\ ApplyLiveEvent(probe.e)
    /\ probe' = [probe EXCEPT !.phase = "twice"]
    /\ UNCHANGED << wsState, fetchState, hasSnapshot, emittedFrom, emitCount,
                    lastRaf, received >>

NextApply ==
    \/ \E data \in ProbeEvents : ProbeProcess(data)
    \/ ProbeRepeat

SpecApply == InitApply /\ [][NextApply]_vars

\* ------------------------------------------------- the session, torn down

\* The session of Spec with the calls of the teardown observed: probe keeps
\* the socket's and the request's state at the first call, and whether the
\* teardown was called again.

TeardownObserved ==
    /\ CloseIfOpen
    /\ probe' = IF probe.phase = "off"
                THEN [phase |-> "torn", ws |-> wsState, fetch |-> fetchState]
                ELSE [probe EXCEPT !.phase = "tornAgain"]

\* Stream messages with consecutive update ids.
ConsecutiveMessages(n) ==
    { d \in StreamMessages(n) : d.e = "depthUpdate" /\ d.U = n + 1 /\ d.u = n + 1 }

NextTeardown ==
    \/ OnOpen
    \/ \E data \in Baselines : FetchSnapshotDone(data)
    \/ FetchSnapshotFailed
    \/ \E data \in UnusableBaselines : FetchSnapshotUnusable(data)
    \/ \E data \in ConsecutiveMessages(Len(received) + 1) : OnMessage(data)
    \/ AnimationFrame
    \/ TeardownObserved
    \/ SocketClosed

SpecTeardown == Init /\ [][NextTeardown]_vars

\* ------------------------------------------ the session, malformed messages

\* The session of Spec on a stream that also carries text that JSON.parse
\* rejects and depthUpdates whose bid list is a valid change followed by an
\* item that is not a pair (null): `b` is the valid part, `bad` the fault.

MalformedMessages(n) ==
    { [e |-> "unparsable", n |-> n, U |-> 0, u |-> 0, b |-> << >>, a |-> << >>,
       bad |-> "text"] }
      \cup { [e |-> "depthUpdate", n |-> n, U |-> n + 1, u |-> n + 1, b |-> b,
               a |-> << >>, bad |-> "item"] : b \in BidChangeLists \ { << >> } }

Malformed(e) == "bad" \in DOMAIN e

\* processEvent(data) in the live branch: the for-of loop over e.b applies
\* the valid change and throws a TypeError on the next item; the catch block
\* of ws.onmessage logs it, the throttle below the call is not reached.
ApplyLiveEventThrowing(data) ==
    /\ bidMap' = ApplyChanges(bidMap, data.b)
    /\ applied' = Append(applied, data.n)
    /\ UNCHANGED << askMap, eventBuffer, lastUpdateId, processing, rafQueue >>

\* ws.onmessage for a malformed message: JSON.parse throws on the text; the
\* depthUpdate is pushed to the buffer as it is, or handed to processEvent.
OnMalformedMessage(data) ==
    /\ wsState = "OPEN"
    /\ Len(received) < MaxEvents
    /\ received' = Append(received, [e |-> data.e, U |-> data.U, u |-> data.u,
                                     buffered |-> ~hasSnapshot, bad |-> data.bad])
    /\ IF data.e = "depthUpdate"
       THEN IF ~hasSnapshot THEN BufferEvent(data) ELSE ApplyLiveEventThrowing(data)
       ELSE UNCHANGED << bidMap, askMap, eventBuffer, lastUpdateId, processing,
                         rafQueue, applied >>
    /\ UNCHANGED << wsState, fetchState, hasSnapshot, emittedFrom, emitCount,
                    lastRaf, probe >>

ReplayThrows(data) ==
    LET validEvents == ValidEvents(eventBuffer, data.lastUpdateId)
    IN  \E i \in 1..Len(validEvents) : Malformed(validEvents[i])

\* fetchSnapshot when a buffered event that the filter keeps is malformed:
\* the snapshot is loaded and hasSnapshot set, validEvents.forEach runs up
\* to the throw inside processEvent, and the catch block is entered with
\* `eventBuffer = []` not reached.
FetchSnapshotReplayThrows(data) ==
    /\ fetchState = "pending"
    /\ ReplayThrows(data)
    /\ LET validEvents == ValidEvents(eventBuffer, data.lastUpdateId)
           k == Min({ i \in 1..Len(validEvents) : Malformed(validEvents[i]) })
           loaded == [bids |-> LoadLevels(bidMap, data.bids),
                      asks |-> LoadLevels(askMap, data.asks)]
           store  == ProcessEvents(loaded, SubSeq(validEvents, 1, k - 1))
       IN  /\ lastUpdateId' = data.lastUpdateId
           /\ bidMap' = ApplyChanges(store.bids, validEvents[k].b)
           /\ askMap' = store.asks
           /\ applied' = applied \o Positions(SubSeq(validEvents, 1, k))
    /\ hasSnapshot' = TRUE
    /\ fetchState' = "failed"
    /\ UNCHANGED << wsState, eventBuffer, processing, rafQueue, emittedFrom,
                    emitCount, lastRaf, received, probe >>

NextMalformed ==
    \/ OnOpen
    \/ \E data \in Baselines : ~ReplayThrows(data) /\ FetchSnapshotDone(data)
    \/ \E data \in Baselines : FetchSnapshotReplayThrows(data)
    \/ FetchSnapshotFailed
    \/ \E data \in ConsecutiveMessages(Len(received) + 1) : OnMessage(data)
    \/ \E data \in MalformedMessages(Len(received) + 1) : OnMalformedMessage(data)
    \/ AnimationFrame
    \/ Teardown
    \/ SocketClosed

SpecMalformed == Init /\ [][NextMalformed]_vars

\* ---------------------------------------------------- the emission harness

\* A synchronized session with an arbitrary book: one live event arrives and
\* requests a frame, a second may arrive before or after the frame runs.

EmitEvents ==
    { [e |-> "depthUpdate", n |-> n, U |-> 2, u |-> 2, b |-> x.b, a |-> x.a] :
        n \in {1}, x \in StreamBodies }

InitEmit ==
    /\ wsState = "OPEN"
    /\ fetchState = "done"
    /\ bidMap \in MapsOver({98, 99}, {1, 2})
    /\ askMap \in MapsOver({101, 102, 104}, {1, 2})
    /\ eventBuffer = << >>
    /\ hasSnapshot = TRUE
    /\ lastUpdateId = 1
    /\ processing = FALSE
    /\ rafQueue = 0
    /\ emittedFrom = NoEmission
    /\ emitCount = 0
    /\ lastRaf = "none"
    /\ received = << >>
    /\ applied = << >>
    /\ probe = [phase |-> "idle"]

ProbeSecond(data) ==
    /\ probe.phase = "once"
    /\ ApplyLiveEvent(data)
    /\ probe' = [probe EXCEPT !.phase = "twice"]
    /\ UNCHANGED << wsState, fetchState, hasSnapshot, emittedFrom, emitCount,
                    lastRaf, received >>

NextEmit ==
    \/ \E data \in EmitEvents : ProbeProcess(data)
    \/ \E data \in EmitEvents : ProbeSecond(data)
    \/ AnimationFrame

SpecEmit == InitEmit /\ [][NextEmit]_vars

\* ------------------------------------------------ the aggregateOrders harness

\* aggregateOrders called once on an arbitrary side map and anchor; probe
\* holds the arguments and then the returned array.  The prices reach the
\* first and the last bucket and beyond it; the anchors (doubled) are 100,
\* 100.5 and 101.5.

AggregatePrices == {0 - 19, 97, 99, 103, 219, 221}
AggregateAnchors == {200, 201, 203}

InitAggregate ==
    /\ wsState = "CONNECTING"
    /\ fetchState = "idle"
    /\ bidMap = EmptyMap
    /\ askMap = EmptyMap
    /\ eventBuffer = << >>
    /\ hasSnapshot = FALSE
    /\ lastUpdateId = 0
    /\ processing = FALSE
    /\ rafQueue = 0
    /\ emittedFrom = NoEmission
    /\ emitCount = 0
    /\ lastRaf = "none"
    /\ received = << >>
    /\ applied = << >>
    /\ \E m \in MapsOver(AggregatePrices, {1, 2}), b \in BOOLEAN, a \in AggregateAnchors :
          probe = [phase |-> "input", rawOrders |-> m, isBid |-> b, midPrice2 |-> a]

Aggregate ==
    /\ probe.phase = "input"
    /\ probe' = [phase |-> "aggregated", rawOrders |-> probe.rawOrders,
                 isBid |-> probe.isBid, midPrice2 |-> probe.midPrice2,
                 result |-> AggregateOrders(probe.rawOrders, probe.isBid,
                                            probe.midPrice2)]
    /\ UNCHANGED << wsState, fetchState, bidMap, askMap, eventBuffer, hasSnapshot,
                    lastUpdateId, processing, rafQueue, emittedFrom, emitCount,
                    lastRaf, received, applied >>

NextAggregate == Aggregate

SpecAggregate == InitAggregate /\ [][NextAggregate]_vars

\* ---------------------------------------------------------- the App's history

\* A synchronized session and the App that consumes it.  latestDataRef.current
\* is the snapshot of the last emission (null while emitCount = 0); probe
\* holds isPaused and historyRef.current.  A snapshot in the history is the
\* object that was emitted: its timestamp, here the number of the emission,
\* and the maps its mid price and buckets were computed from.

AppPositions == 1..2

\* The n-th message sets or removes the ask level 101.
AppMessages(n) ==
    { d \in ConsecutiveMessages(n) : n \in AppPositions /\ d.b = << >> }

InitApp ==
    /\ wsState = "OPEN"
    /\ fetchState = "done"
    /\ bidMap = [p \in {99} |-> 1]
    /\ askMap = [p \in {101, 103} |-> IF p = 101 THEN 1 ELSE 2]
    /\ eventBuffer = << >>
    /\ hasSnapshot = TRUE
    /\ lastUpdateId = 1
    /\ processing = FALSE
    /\ rafQueue = 0
    /\ emittedFrom = NoEmission
    /\ emitCount = 0
    /\ lastRaf = "none"
    /\ received = << >>
    /\ applied = << >>
    /\ probe = [phase |-> "app", isPaused |-> FALSE, history |-> << >>]

\* Fault variant of Tick: `>=` for `>` in the pruning test.
TickPruningEarly ==
    /\ IF probe.isPaused \/ emitCount = 0
       THEN UNCHANGED probe
       ELSE LET snapshot   == [timestamp |-> emitCount, from |-> emittedFrom]
                newHistory == Append(probe.history, snapshot)
            IN  probe' = [probe EXCEPT !.history =
                             IF Len(newHistory) >= MAX_HISTORY THEN Tail(newHistory)
                                                               ELSE newHistory]
    /\ UNCHANGED << wsState, fetchState, bidMap, askMap, eventBuffer, hasSnapshot,
                    lastUpdateId, processing, rafQueue, emittedFrom, emitCount,
                    lastRaf, received, applied >>

\* The interval callback `tick`.
Tick ==
    /\ IF probe.isPaused \/ emitCount = 0
       THEN UNCHANGED probe
       ELSE LET snapshot   == [timestamp |-> emitCount, from |-> emittedFrom]
                newHistory == Append(probe.history, snapshot)
            IN  probe' = [probe EXCEPT !.history =
                             IF Len(newHistory) > MAX_HISTORY THEN Tail(newHistory)
                                                              ELSE newHistory]
    /\ UNCHANGED << wsState, fetchState, bidMap, askMap, eventBuffer, hasSnapshot,
                    lastUpdateId, processing, rafQueue, emittedFrom, emitCount,
                    lastRaf, received, applied >>

\* The pause button: setIsPaused(!isPaused).
TogglePause ==
    /\ probe' = [probe EXCEPT !.isPaused = ~probe.isPaused]
    /\ UNCHANGED << wsState, fetchState, bidMap, askMap, eventBuffer, hasSnapshot,
                    lastUpdateId, processing, rafQueue, emittedFrom, emitCount,
                    lastRaf, received, applied >>

NextApp ==
    \/ \E data \in AppMessages(Len(received) + 1) : OnMessage(data)
    \/ AnimationFrame
    \/ Tick
    \/ TogglePause
    \/ Teardown
    \/ SocketClosed

SpecApp == InitApp /\ [][NextApp]_vars

\* ------------------------------------------------------------- properties

Range(f) == { f[i] : i \in DOMAIN f }

IsDepthUpdate(n) == received[n].e = "depthUpdate"

\* Buffered events that the filter at the snapshot keeps (u > lastUpdateId).
RemainingBuffered ==
    { n \in 1..Len(received) :
        IsDepthUpdate(n) /\ received[n].buffered /\ received[n].u > lastUpdateId }

\* C1: at replay, when the first buffered event left after the stale ones
\* are dropped has U > lastUpdateId + 1 (a gap), that event is not applied.
C1_GapAtReplayNotApplied ==
    (hasSnapshot /\ RemainingBuffered # {}
       /\ received[Min(RemainingBuffered)].U > lastUpdateId + 1)
    => Min(RemainingBuffered) \notin Range(applied)

\* The update id that the k-th applied event has to continue: the final id
\* of the event applied before it, the snapshot's lastUpdateId for the first.
\* (lastUpdateId is assigned by the snapshot alone.)
IdBefore(k) == IF k = 1 THEN lastUpdateId ELSE received[applied[k - 1]].u

\* C2: every event applied live (after the snapshot and the replay of the
\* buffer) has U <= (id of the last applied update) + 1; a live event with
\* a larger U is not applied.
C2_LiveEventsContinuous ==
    \A k \in 1..Len(applied) :
        ~received[applied[k]].buffered => received[applied[k]].U <= IdBefore(k) + 1

\* C3: after an event has been applied, lastUpdateId is that event's final
\* update id u.
C3_LastUpdateIdTracksApplied ==
    (hasSnapshot /\ applied # << >>) => lastUpdateId = received[applied[Len(applied)]].u

\* C4: a buffered event with u <= the snapshot's lastUpdateId is never
\* applied, and the buffer is empty once the snapshot is in.
C4_StaleBufferedEventsDiscarded ==
    hasSnapshot =>
        /\ eventBuffer = << >>
        /\ \A n \in 1..Len(received) :
              (IsDepthUpdate(n) /\ received[n].buffered /\ received[n].u <= lastUpdateId)
              => n \notin Range(applied)

C4_Witness ==
    /\ hasSnapshot
    /\ \E n \in 1..Len(received) :
          /\ IsDepthUpdate(n) /\ received[n].buffered /\ received[n].u <= lastUpdateId
          /\ \E k \in 1..Len(received) : k > n /\ received[k].buffered /\ k \in Range(applied)

\* C5: whatever the interleaving of message arrivals with the completion of
\* the snapshot fetch, every received depthUpdate with u > lastUpdateId is
\* applied exactly once, in arrival order, and nothing is applied before the
\* snapshot.
C5_AppliedOnceInArrivalOrder ==
    /\ ~hasSnapshot => applied = << >>
    /\ hasSnapshot =>
          /\ \A i, j \in 1..Len(applied) : i < j => applied[i] < applied[j]
          /\ \A n \in 1..Len(received) :
                (IsDepthUpdate(n) /\ received[n].u > lastUpdateId)
                => n \in Range(applied)

C5_Witness ==
    /\ hasSnapshot
    /\ Len(applied) = 2
    /\ received[applied[1]].buffered
    /\ ~received[applied[2]].buffered
    /\ received[applied[1]].u > lastUpdateId
    /\ received[applied[2]].u > lastUpdateId

\* C6: while there is no snapshot, a depthUpdate handed to ws.onmessage is
\* appended, as it is, to the end of the buffer, and the two maps,
\* lastUpdateId and the throttle (flag and requested frames) are unchanged.
C6_BufferingLeavesStoreUntouched ==
    [][ \A data \in StreamMessages(Len(received) + 1) :
          (~hasSnapshot /\ data.e = "depthUpdate" /\ OnMessage(data))
          => /\ eventBuffer' = Append(eventBuffer, data)
             /\ UNCHANGED << bidMap, askMap, lastUpdateId, processing, rafQueue >>
      ]_vars

C6_Witness ==
    /\ ~hasSnapshot
    /\ Len(eventBuffer) = 2
    /\ eventBuffer[1].b # << >>
    /\ eventBuffer[2].a # << >>
    /\ bidMap = EmptyMap /\ askMap = EmptyMap
    /\ lastUpdateId = 0 /\ ~processing

\* C7: no entry of the bid map or of the ask map has a quantity <= 0.
C7_NoNonPositiveQuantity ==
    /\ \A p \in DOMAIN bidMap : bidMap[p] > 0
    /\ \A p \in DOMAIN askMap : askMap[p] > 0

\* What a change list leaves of a map, read off the list: a price the list
\* does not name keeps its entry; a price it names takes the quantity of the
\* last change naming it, and has no entry when that quantity is 0.
LastChange(changes, price) ==
    changes[Max({ i \in 1..Len(changes) : ParseFloat(changes[i][1]) = price })]

ChangedMap(m, changes) ==
    LET named == { ParseFloat(changes[i][1]) : i \in 1..Len(changes) }
        kept  == { p \in named : ParseFloat(LastChange(changes, p)[2]) # 0 }
    IN  [p \in ((DOMAIN m) \ named) \cup kept |->
            IF p \in named THEN ParseFloat(LastChange(changes, p)[2]) ELSE m[p]]

\* C8: applying an event removes a price whose change has quantity 0 and
\* sets every other changed price to its quantity; the changes take effect
\* in list order (the last change of a price wins); the other prices of the
\* side are unchanged, and a side the event has no change for is unchanged.
C8_ZeroRemovesElseUpsert ==
    probe.phase = "once" =>
        /\ bidMap = ChangedMap(probe.bids0, probe.e.b)
        /\ askMap = ChangedMap(probe.asks0, probe.e.a)
        /\ probe.e.b = << >> => bidMap = probe.bids0
        /\ probe.e.a = << >> => askMap = probe.asks0

C8_Witness ==
    /\ probe.phase = "once"
    /\ probe.e.b = << <<"99", "2">>, <<"99.00", "0.00">> >>
    /\ probe.e.a = << <<"103", "3">> >>
    /\ probe.bids0 = [p \in {97, 99} |-> 1]
    /\ bidMap = [p \in {97} |-> 1]
    /\ probe.asks0 = [p \in {101} |-> 1]
    /\ askMap = [p \in {101, 103} |-> IF p = 101 THEN 1 ELSE 3]

\* C9: applying the same event a second time leaves both maps as the first
\* application left them.
C9_SecondApplicationIsNoOp ==
    probe.phase = "twice" => (bidMap = probe.bids1 /\ askMap = probe.asks1)

C9_Witness ==
    /\ probe.phase = "twice"
    /\ probe.e.b = << <<"99", "0.00">> >>
    /\ 99 \in DOMAIN probe.bids0
    /\ 99 \notin DOMAIN bidMap
    /\ bidMap = probe.bids1

\* C10: onUpdate is never called from a state in which the bid map or the
\* ask map is empty; an animation-frame callback that runs in such a state
\* emits nothing.
C10_NoEmissionWithEmptySide ==
    [][ /\ emitCount' # emitCount => (DOMAIN bidMap # {} /\ DOMAIN askMap # {})
        /\ (rafQueue' < rafQueue /\ (DOMAIN bidMap = {} \/ DOMAIN askMap = {}))
           => UNCHANGED << emitCount, emittedFrom >>
      ]_vars

C10_Witness ==
    /\ lastRaf = "withheld"
    /\ emitCount = 0
    /\ DOMAIN bidMap # {}
    /\ DOMAIN askMap = {}
    /\ ~processing

\* C11: every snapshot handed to onUpdate has midPrice = (highest bid price +
\* lowest ask price) / 2 of the maps as they are when it is emitted, and both
\* bucket rows start at that mid price (doubled here: midPrice2, price2).
C11_MidPriceFromBestLevels ==
    [][ emitCount' # emitCount =>
          LET view == BuildSnapshot(bidMap, askMap)
          IN  /\ emittedFrom' = [bids |-> bidMap, asks |-> askMap]
              /\ view.midPrice2 = Max(DOMAIN bidMap) + Min(DOMAIN askMap)
              /\ view.bids[1].price2 = view.midPrice2
              /\ view.asks[1].price2 = view.midPrice2
      ]_vars

\* The spec's example after a second event: bids {99: 1}, asks {101: 1}, mid
\* price 100; and a mid price that is a half (99 and 102).
C11_Witness ==
    /\ emitCount = 1
    /\ probe.phase = "twice"
    /\ probe.bids0 = [p \in {98, 99} |-> 2]
    /\ emittedFrom.bids = [p \in {98, 99} |-> IF p = 99 THEN 1 ELSE 2]
    /\ emittedFrom.asks = [p \in {102, 104} |-> 1]
    /\ LatestData.midPrice2 = 201

\* C12: at most one animation frame is requested at any moment, and the
\* throttle's flag is set exactly while one is; hence an event that arrives
\* while a frame is requested requests no other, and onUpdate runs at most
\* once per frame.
C12_AtMostOnePendingEmission ==
    /\ rafQueue <= 1
    /\ processing <=> (rafQueue = 1)

C12_Witness ==
    /\ rafQueue = 1
    /\ lastRaf = "none"
    /\ Len(applied) >= 2
    /\ ~received[applied[Len(applied)]].buffered
    /\ ~received[applied[Len(applied) - 1]].buffered

\* C13: when events were applied since the last frame and both sides of the
\* book are non-empty, a frame is requested, and the frame that runs emits
\* exactly one view, built from the maps as they are when it runs.
C13_CoalescedIntoOneEmission ==
    [][ /\ ( /\ Len(applied') > Len(applied)
             /\ bidMap' # EmptyMap
             /\ askMap' # EmptyMap ) => rafQueue' = 1
        /\ ( /\ rafQueue' < rafQueue
             /\ bidMap # EmptyMap
             /\ askMap # EmptyMap ) =>
               /\ emitCount' = emitCount + 1
               /\ emittedFrom' = [bids |-> bidMap, asks |-> askMap]
      ]_vars

\* C14: every step that applies an event, live or replayed from the buffer,
\* ends with the processing flag set and a frame requested.
C14_AppliedEventSchedulesEmission ==
    [][ Len(applied') > Len(applied) => (processing' /\ rafQueue' = 1) ]_vars

\* An applied event left a gap: its U is beyond the id it had to continue.
GapSeen ==
    \E k \in 1..Len(applied) : received[applied[k]].U > IdBefore(k) + 1

\* C15: once an event with a gap has been received, onUpdate is not called
\* (the session is never resynchronized from a fresh snapshot: fetchSnapshot
\* runs once, from ws.onopen).
C15_NoEmissionAfterGap ==
    [][ GapSeen => emitCount' = emitCount ]_vars

TornDown == probe.phase \in {"torn", "tornAgain"}

\* C16: once the teardown has been called, whatever the socket's state was,
\* no event is pushed to the buffer or applied, the buffer is empty, and
\* onUpdate is not called.
C16_TeardownStopsSession ==
    [][ TornDown' =>
          /\ eventBuffer' = << >>
          /\ TornDown => UNCHANGED << eventBuffer, applied, emitCount >>
      ]_vars

\* C17: when the teardown was called while the snapshot request was pending,
\* the response is not applied: the maps, lastUpdateId and hasSnapshot stay
\* as they were and no buffered event is replayed.
C17_TeardownAbandonsFetch ==
    [][ (TornDown /\ probe.fetch = "pending") =>
          UNCHANGED << bidMap, askMap, lastUpdateId, hasSnapshot, applied >>
      ]_vars

\* C18: a call of the teardown leaves the session in a state that a further
\* call does not change (the teardown touches ws.readyState only).
C18_TeardownIdempotent ==
    [][ probe' # probe =>
          /\ TeardownResult(wsState') = wsState'
          /\ UNCHANGED << fetchState, bidMap, askMap, eventBuffer, hasSnapshot,
                          lastUpdateId, processing, rafQueue, emitCount, applied >>
      ]_vars

\* The teardown called twice on an open socket with a frame requested.
C18_Witness ==
    /\ probe.phase = "tornAgain"
    /\ probe.ws = "OPEN"
    /\ wsState = "CLOSING"
    /\ rafQueue = 1

\* C19: when the snapshot request has failed, by a network error or by a
\* body that is no snapshot, nothing of the response is in the maps or in
\* lastUpdateId, hasSnapshot is false (events go on being buffered, none is
\* applied) and no snapshot was emitted.
C19_FailedFetchAppliesNothing ==
    fetchState = "failed" =>
        /\ ~hasSnapshot
        /\ bidMap = EmptyMap
        /\ askMap = EmptyMap
        /\ lastUpdateId = 0
        /\ applied = << >>
        /\ emitCount = 0

\* The step receives a malformed message.
MalformedReceived ==
    /\ Len(received') > Len(received)
    /\ Malformed(received'[Len(received')])

\* C20: receiving a malformed message leaves the maps, the buffer,
\* lastUpdateId and the throttle as they are, and once the snapshot is in,
\* every well-formed buffered event that the filter keeps has been applied.
C20_MalformedMessagesInert ==
    [][ /\ MalformedReceived =>
             UNCHANGED << bidMap, askMap, eventBuffer, lastUpdateId, processing,
                          rafQueue >>
        /\ hasSnapshot' =>
             \A n \in RemainingBuffered' :
                 Malformed(received'[n]) \/ n \in Range(applied')
      ]_vars

\* C21: aggregateOrders returns 60 entries for every side map and anchor, and
\* entry i has the price anchor - 2i on the bid side, anchor + 2i on the ask
\* side (prices doubled: 4i).
C21_SixtyBucketsAtFixedPrices ==
    probe.phase = "aggregated" =>
        /\ Len(probe.result) = 60
        /\ \A i \in 0..59 :
               probe.result[i + 1].price2 =
                   IF probe.isBid THEN probe.midPrice2 - 4 * i
                                  ELSE probe.midPrice2 + 4 * i

\* The empty bid map at anchor 100.5: the last bucket is at 100.5 - 118.
C21_Witness ==
    /\ probe.phase = "aggregated"
    /\ probe.rawOrders = EmptyMap
    /\ probe.isBid
    /\ probe.midPrice2 = 201
    /\ probe.result[60].price2 = 0 - 35

\* C22: in every emitted snapshot, on both sides, the first total is not
\* negative and no total is smaller than the one before it.
C22_TotalsNeverDecrease ==
    emitCount > 0 =>
        \A side \in {LatestData.bids, LatestData.asks} :
            /\ side[1].total >= 0
            /\ \A i \in 2..60 : side[i].total >= side[i - 1].total

\* A snapshot emitted after two events, with bids in two buckets.
C22_Witness ==
    /\ emitCount = 1
    /\ probe.phase = "twice"
    /\ LatestData.midPrice2 = 200
    /\ LatestData.bids[1].total = 1
    /\ LatestData.bids[2].total = 3
    /\ LatestData.bids[60].total = 3

RECURSIVE SumOver(_, _)
SumOver(f, S) ==
    IF S = {} THEN 0
    ELSE LET x == CHOOSE y \in S : TRUE IN f[x] + SumOver(f, S \ {x})

\* The levels of the aggregated map with floor(|price - anchor| / 2) = i:
\* 2i <= |price - anchor| < 2i + 2, with prices and anchor doubled.
LevelsOfBucket(i) ==
    { p \in DOMAIN probe.rawOrders :
        /\ 4 * i <= Abs(2 * p - probe.midPrice2)
        /\ Abs(2 * p - probe.midPrice2) < 4 * i + 4 }

\* C23: the quantity of bucket i is the sum of the quantities of the levels
\* with floor(|price - anchor| / 2) = i (so a level with index >= 60 is in no
\* bucket), and the total of bucket i is the sum of the quantities of the
\* buckets 0..i.
C23_BucketQuantitiesAndTotals ==
    probe.phase = "aggregated" =>
        \A i \in 0..59 :
            /\ probe.result[i + 1].quantity = SumOver(probe.rawOrders, LevelsOfBucket(i))
            /\ probe.result[i + 1].total =
                   SumOver([j \in 0..59 |-> probe.result[j + 1].quantity], 0..i)

\* Anchor 100: 99 in bucket 0, 97 and 103 together in bucket 1, 219 in the
\* last bucket, 221 beyond it.
C23_Witness ==
    /\ probe.phase = "aggregated"
    /\ probe.midPrice2 = 200
    /\ probe.rawOrders = [p \in {97, 99, 103, 219, 221} |-> IF p = 103 THEN 2 ELSE 1]
    /\ probe.result[1].quantity = 1
    /\ probe.result[2].quantity = 3
    /\ probe.result[60].quantity = 1
    /\ probe.result[60].total = 5

\* The replay of the buffer on the snapshot `data` passes through a store in
\* which a side that had levels has none.
SideEmptiedInReplay(data) ==
    LET validEvents == ValidEvents(eventBuffer, data.lastUpdateId)
        loaded == [bids |-> LoadLevels(bidMap, data.bids),
                   asks |-> LoadLevels(askMap, data.asks)]
        StoreAfter(k) == ProcessEvents(loaded, SubSeq(validEvents, 1, k))
    IN  \E k \in 1..(Len(validEvents) - 1) : \E j \in 0..(k - 1) :
            \/ StoreAfter(j).bids # EmptyMap /\ StoreAfter(k).bids = EmptyMap
            \/ StoreAfter(j).asks # EmptyMap /\ StoreAfter(k).asks = EmptyMap

\* C24: nothing is emitted while a side is empty; a frame that runs clears
\* the processing flag, emitted or withheld; and an applied event that makes
\* both sides non-empty again after a side was emptied leaves a frame
\* requested, in the live branch and in the replay of the buffer.
C24_EmissionResumes ==
    [][ /\ emitCount' # emitCount => (bidMap # EmptyMap /\ askMap # EmptyMap)
        /\ rafQueue' < rafQueue => ~processing'
        /\ ( /\ hasSnapshot
             /\ bidMap = EmptyMap \/ askMap = EmptyMap
             /\ Len(applied') > Len(applied)
             /\ bidMap' # EmptyMap
             /\ askMap' # EmptyMap ) => rafQueue' = 1
        /\ \A data \in Baselines :
             ( /\ FetchSnapshotDone(data)
               /\ SideEmptiedInReplay(data)
               /\ bidMap' # EmptyMap
               /\ askMap' # EmptyMap ) => rafQueue' = 1
      ]_vars

\* The snapshots of the history are carried over as they are: the history
\* stays, or gains one entry at the end, or gains one and loses its first.
HistoryEntriesKept ==
    LET h  == probe.history
        h2 == probe'.history
    IN  \/ h2 = h
        \/ Len(h2) = Len(h) + 1 /\ SubSeq(h2, 1, Len(h)) = h
        \/ Len(h2) = Len(h) /\ h # << >> /\ SubSeq(h2, 1, Len(h) - 1) = Tail(h)

\* C25: an emission hands over a snapshot built then, from the maps as they
\* are, with a timestamp of its own; and no step (events applied, later
\* emissions, teardown) changes the snapshot the App received last or one it
\* keeps in its history.
C25_EmittedSnapshotsNeverChange ==
    [][ /\ emitCount' # emitCount =>
             /\ emitCount' = emitCount + 1
             /\ emittedFrom' = [bids |-> bidMap, asks |-> askMap]
        /\ emitCount' = emitCount => emittedFrom' = emittedFrom
        /\ HistoryEntriesKept
      ]_vars

\* The history holds the first snapshot, a second one built from other maps
\* was emitted after it, and the teardown has been called.
C25_Witness ==
    /\ probe.history # << >>
    /\ probe.history[1].timestamp = 1
    /\ emitCount = 2
    /\ probe.history[1].from # emittedFrom
    /\ probe.history[1].from # [bids |-> bidMap, asks |-> askMap]
    /\ wsState = "CLOSING"

\* C26: while hasSnapshot is false no frame is requested, the processing flag
\* is clear and onUpdate has not been called; and hasSnapshot is true only
\* when fetchSnapshot has run to its end, with the snapshot's lastUpdateId
\* recorded.
C26_NothingBeforeSnapshot ==
    /\ ~hasSnapshot => (rafQueue = 0 /\ ~processing /\ emitCount = 0)
    /\ hasSnapshot => (fetchState = "done" /\ lastUpdateId \in BaselineIds)

\* Two events have arrived and the snapshot has not.
C26_Witness ==
    /\ ~hasSnapshot
    /\ fetchState = "pending"
    /\ Len(eventBuffer) >= 2
    /\ \A n \in 1..Len(received) : IsDepthUpdate(n)

\* C27: the history never holds more than 100 snapshots; a step taken while
\* the App is paused or before the first snapshot leaves it as it is; and
\* when it changes, the snapshot received last has been appended and, if
\* that made 101, the first dropped.
C27_HistoryBoundedFifo ==
    [][ /\ Len(probe'.history) <= 100
        /\ (probe.isPaused \/ emitCount = 0) => probe'.history = probe.history
        /\ probe'.history # probe.history =>
             LET latest == [timestamp |-> emitCount, from |-> emittedFrom]
             IN  probe'.history =
                   IF Len(probe.history) = 100
                   THEN Append(Tail(probe.history), latest)
                   ELSE Append(probe.history, latest)
      ]_vars

\* A full history that has lost snapshots of the first emission and holds
\* the second at its end, with the App paused.
C27_Witness ==
    /\ Len(probe.history) = 100
    /\ probe.isPaused
    /\ probe.history[1].timestamp = 1
    /\ probe.history[2].timestamp = 2
    /\ probe.history[100].timestamp = 2
    /\ emitCount = 2

=============================================================================
